---- MODULE Spec2Model ----
(***************************************************************************)
(* Van rental storefront (Index page), staff panel (AdminBookings,         *)
(* AdminFleet) and the Postgres store behind them (tables vans, bookings,  *)
(* van_images, their row-level-security policies and the booking-code      *)
(* trigger).  The store is shared; every browser tab and every direct      *)
(* caller of the REST interface is a client of it.                         *)
(***************************************************************************)
EXTENDS Integers, Sequences, FiniteSets, TLC

(***************************************************************************)
(* Bounds of the model.                                                    *)
(***************************************************************************)
NumCustomers == 2      \* browser tabs showing the Index page
NumStaff == 2          \* signed-in staff tabs; uid 1 is the admin
MaxBookings == 2       \* rows the bookings table may hold
NumSeeds == 2          \* distinct values random() yields in the trigger
InitVans == 1          \* sample rows of the migration kept in the table
MaxVans == 2           \* rows the vans table may hold
MaxImages == 1         \* rows the van_images table may hold

Customers == 1..NumCustomers
NullUid == 0
StaffUids == 1..NumStaff
OutsiderUid == NumStaff + 1
\* callers of the REST interface that hold no profile row: the anonymous key
\* (auth.uid() is null) and a signed-in account without a profile
Outsiders == {NullUid, OutsiderUid}
\* everyone who may call the REST interface directly: the callers without a
\* profile and the staff accounts
ApiCallers == Outsiders \cup StaffUids
VanIds == 1..MaxVans
ImageIds == 1..MaxImages
Seeds == 1..NumSeeds

(***************************************************************************)
(* Text: a string is a sequence of one-character strings.                  *)
(***************************************************************************)
UpperOf ==
  ("a" :> "A") @@ ("b" :> "B") @@ ("c" :> "C") @@ ("d" :> "D") @@
  ("e" :> "E") @@ ("f" :> "F") @@ ("z" :> "Z")

\* an upper() that leaves every character as it is
ToUpperCase_Identity(s) == s

\* String.prototype.toUpperCase / SQL upper()
ToUpperCase(s) ==
  [i \in DOMAIN s |-> IF s[i] \in DOMAIN UpperOf THEN UpperOf[s[i]] ELSE s[i]]

IsSpace(ch) == ch = " "

RECURSIVE TrimStart(_)
TrimStart(s) ==
  IF s # <<>> /\ IsSpace(Head(s)) THEN TrimStart(Tail(s)) ELSE s

RECURSIVE TrimEnd(_)
TrimEnd(s) ==
  IF s # <<>> /\ IsSpace(s[Len(s)]) THEN TrimEnd(SubSeq(s, 1, Len(s) - 1)) ELSE s

\* String.prototype.trim
Trim(s) == TrimEnd(TrimStart(s))

\* substr(text, 1, n)
Substr1(s, n) == SubSeq(s, 1, IF Len(s) < n THEN Len(s) ELSE n)

\* md5(random()::text): the hexadecimal digest of each value random() may
\* yield, cut to its first eight digits.  Seeds 1 and 3 differ in the digest
\* but agree on its first six digits.
Md5 ==
  << <<"a","1","b","2","c","3","d","4">>,
     <<"0","f","9","e","8","d","7","c">>,
     <<"a","1","b","2","c","3","9","e">>,
     <<"c","0","f","f","e","e","1","2">> >>

CodeLen == 6

\* upper(substr(md5(random()::text), 1, 6))
CandidateCode(seed) == ToUpperCase(Substr1(Md5[seed], CodeLen))

(***************************************************************************)
(* Dates: a calendar date is <<year, month, day>>.                         *)
(***************************************************************************)
\* days since 1970-01-01 of a civil date
DayNumber(date) ==
  LET y0 == date[1]
      m == date[2]
      d == date[3]
      y == IF m <= 2 THEN y0 - 1 ELSE y0
      era == y \div 400
      yoe == y - era * 400
      mp == (m + 9) % 12
      doy == (153 * mp + 2) \div 5 + d - 1
      doe == yoe * 365 + yoe \div 4 - yoe \div 100 + doy
  IN  era * 146097 + doe - 719468

\* date-fns differenceInDays on two local midnights
differenceInDays(dateLeft, dateRight) == DayNumber(dateLeft) - DayNumber(dateRight)

\* date-fns isAfter
isAfter(date, dateToCompare) == DayNumber(date) > DayNumber(dateToCompare)

\* new Date() when the page is used
Today == <<2025, 6, 9>>

\* the days a customer may click in the calendars
CalendarDays == {<<2025, 6, 10>>, <<2025, 6, 13>>}

(***************************************************************************)
(* The store: schema, sample rows and row-level security.                  *)
(***************************************************************************)
\* an optional value is a sequence of length 0 or 1
None == <<>>
Some(x) == <<x>>

app_role == {"admin", "staff"}
van_status == {"available", "maintenance", "hidden"}
\* the enum of the first migration with 'proceed' added after 'confirmed'
booking_status == {"pending", "confirmed", "proceed", "completed", "cancelled"}

\* rows of public.profiles: handle_new_user gives every account that signed
\* up a row; OutsiderUid is an account whose row is absent
profiles == [u \in StaffUids |-> [role |-> IF u = 1 THEN "admin" ELSE "staff"]]

has_role(_user_id, _role) ==
  _user_id \in DOMAIN profiles /\ profiles[_user_id].role = _role

\* a role check that only asks whether the caller is signed in
is_staff_or_admin_SignedIn(_user_id) == _user_id # NullUid

is_staff_or_admin(_user_id) ==
  _user_id \in DOMAIN profiles /\ profiles[_user_id].role \in {"admin", "staff"}

\* sample rows inserted by the migration, numbered from the last one
\* (the ids are random uuids)
SampleVans ==
  << [name |-> "City Cruiser", model |-> "Hyundai H-1 Premium 2023",
      image_url |-> "photo-1555215695", price_per_day |-> 1800, status |-> "available"],
     [name |-> "Business Class", model |-> "Ford Transit Luxury 2023",
      image_url |-> "photo-1614791937614", price_per_day |-> 2800, status |-> "available"],
     [name |-> "VIP Royale", model |-> "Toyota Alphard Executive Lounge 2024",
      image_url |-> "photo-1558618666", price_per_day |-> 3800, status |-> "available"],
     [name |-> "Executive Elite", model |-> "Mercedes-Benz V-Class 2024",
      image_url |-> "photo-1544636331", price_per_day |-> 4500, status |-> "available"] >>

\* daily prices a staff member types into the fleet form
FormPrices == {1800, 2000}

VARIABLES
  vans,           \* table public.vans: van id -> row
  bookings,       \* table public.bookings: rows in order of created_at
  van_images,     \* table public.van_images: set of rows
  inserts,        \* INSERTs into bookings under way: caller -> optional transaction
  index,          \* state of the Index page of each customer tab
  lookups,        \* lookup queries under way: customer -> optional normalized code
  adminBookings,  \* state of the AdminBookings page of each staff tab
  fetches,        \* fetchBookings queries under way: staff tab -> set of filters
  updates,        \* updateStatus calls under way: staff tab -> optional call
  adminFleet,     \* state of the AdminFleet page of each staff tab
  api,            \* last response received by each direct caller of the REST interface
  route           \* ProtectedRoute of each staff tab: what useAuth() gives, what is rendered

vars == <<vans, bookings, van_images, inserts, index, lookups,
          adminBookings, fetches, updates, adminFleet, api, route>>

store == <<vans, bookings, van_images>>
staffPages == <<adminBookings, fetches, updates, adminFleet>>

\* who may have an INSERT into bookings under way: each customer tab, and
\* each direct caller of the REST interface
Callers == ({"tab"} \X Customers) \cup ({"api"} \X Outsiders)
Tab(c) == <<"tab", c>>
Direct(o) == <<"api", o>>

(***************************************************************************)
(* Policies (USING / WITH CHECK expressions) by table and command.         *)
(***************************************************************************)
\* "Anyone can view available vans", "Staff can view all vans"
vans_select(uid, row) == row.status = "available" \/ is_staff_or_admin(uid)
\* "Staff can insert vans"
vans_insert(uid) == is_staff_or_admin(uid)
\* "Staff can update vans"
vans_update(uid) == is_staff_or_admin(uid)
\* "Staff can delete vans"
vans_delete(uid) == has_role(uid, "admin")
\* "Anyone can create bookings"
bookings_insert(uid) == TRUE
\* "Anyone can view booking by code" (the staff-only policy is dropped)
bookings_select(uid, row) == TRUE
\* "Staff can update bookings"
bookings_update(uid) == is_staff_or_admin(uid)
\* a DELETE policy for staff on bookings
bookings_delete_Staff(uid) == is_staff_or_admin(uid)
\* bookings has row-level security enabled and no policy FOR DELETE
bookings_delete(uid) == FALSE
\* van_images: "Anyone can view van images", "Staff can insert/update/delete van images"
van_images_select(uid, row) == TRUE
van_images_insert(uid) == is_staff_or_admin(uid)
van_images_update(uid) == is_staff_or_admin(uid)
van_images_delete(uid) == is_staff_or_admin(uid)

(***************************************************************************)
(* Queries and statements of the store.                                    *)
(***************************************************************************)
BookingIds == 1..Len(bookings)

\* a check that finds no code taken
CodeExists_Never(new_code) == FALSE

\* EXISTS(SELECT 1 FROM bookings WHERE booking_code = new_code)
CodeExists(new_code) == \E i \in BookingIds : bookings[i].booking_code = new_code

\* a bookings table without the UNIQUE constraint on booking_code
UniqueViolation_NoConstraint(new_code) == FALSE

\* booking_code TEXT UNIQUE, checked when the row is inserted
UniqueViolation(new_code) == \E i \in BookingIds : bookings[i].booking_code = new_code

\* van_id REFERENCES vans(id)
ForeignKeyViolation(van_id) == van_id \notin DOMAIN vans

\* the error an INSERT of new_row raises, "" when the row is stored
InsertError(uid, new_row) ==
  IF ~bookings_insert(uid) THEN "42501"
  ELSE IF UniqueViolation(new_row.booking_code) THEN "23505"
  ELSE IF ForeignKeyViolation(new_row.van_id) THEN "23503"
  ELSE ""

\* the row as stored: id and created_at follow the order of insertion
StoredRow(new_row) == [new_row EXCEPT !.id = Len(bookings) + 1]

\* the vans(name, model, image_url) embedding of a bookings row, as uid sees it
EmbedVan(uid, van_id) ==
  IF van_id \in DOMAIN vans /\ vans_select(uid, vans[van_id])
  THEN Some([name |-> vans[van_id].name, model |-> vans[van_id].model,
             image_url |-> vans[van_id].image_url])
  ELSE None

\* supabase realtime: every subscribed AdminBookings tab refetches with its filter
NotifyBookings(f) == [s \in StaffUids |-> f[s] \cup {adminBookings[s].filter}]

\* rows of bookings that an insert under way will add at most
InsertsUnderWay == Cardinality({k \in Callers : inserts[k] # None})

(***************************************************************************)
(* Initial state: the migrations have run, every page has just mounted.    *)
(***************************************************************************)
EmptyForm == [phone |-> <<>>]

\* toast({title, description})
Toast(title, description) == [title |-> title, description |-> description]
NoToast == Toast("", "")

\* a response of the REST interface: the statement, its error ("" for none),
\* the rows it touched and, for a SELECT, its filter on booking_code and its rows
Response(op, error, count, filter, rows) ==
  [op |-> op, error |-> error, count |-> count, filter |-> filter, rows |-> rows]
NoResponse == Response("", "", 0, None, {})

(***************************************************************************)
(* ProtectedRoute around the staff pages.                                  *)
(***************************************************************************)
\* a route that lets every signed-in user through
ProtectedRoute_UserOnly(loading, user, profile) ==
  IF loading THEN "spinner"
  ELSE IF user = None THEN "redirect"
  ELSE "children"

\* what ProtectedRoute returns for the values of useAuth()
ProtectedRoute(loading, user, profile) ==
  IF loading THEN "spinner"
  ELSE IF user = None \/ profile = None \/ profile[1].role \notin {"admin", "staff"}
       THEN "redirect"
  ELSE "children"

\* values useAuth() can give: the session's user if any, and the profiles
\* row read for it if any
AuthStates ==
  [loading : BOOLEAN,
   user : {None} \cup {Some(u) : u \in StaffUids \cup {OutsiderUid}},
   profile : {None} \cup {Some([role |-> r]) : r \in {"admin", "staff"}}]

\* a route that has not rendered yet
Unrendered(auth) ==
  [loading |-> auth.loading, user |-> auth.user, profile |-> auth.profile,
   rendered |-> ""]

Mounting == Unrendered([loading |-> TRUE, user |-> None, profile |-> None])

\* ProtectedRoute renders
render(t) ==
  /\ route[t].rendered = ""
  /\ route' = [route EXCEPT ![t].rendered =
       ProtectedRoute(route[t].loading, route[t].user, route[t].profile)]
  /\ UNCHANGED <<store, inserts, index, lookups, staffPages, api>>

Init ==
  /\ vans = [v \in 1..InitVans |-> SampleVans[v]]
  /\ bookings = <<>>
  /\ van_images = {}
  /\ inserts = [k \in Callers |-> None]
  /\ index = [c \in Customers |->
       [loading |-> TRUE, vans |-> <<>>, selectedVan |-> None,
        startDate |-> None, endDate |-> None, form |-> EmptyForm,
        bookingOpen |-> FALSE, successOpen |-> FALSE, bookingCode |-> <<>>,
        submitting |-> FALSE, toast |-> NoToast,
        lookupCode |-> <<>>, lookupLoading |-> FALSE,
        lookupResult |-> None, lookupError |-> ""]]
  /\ lookups = [c \in Customers |-> {}]
  /\ adminBookings = [s \in StaffUids |->
       [bookings |-> <<>>, loading |-> TRUE, filter |-> "all", toast |-> NoToast]]
  /\ fetches = [s \in StaffUids |-> {"all"}]
  /\ updates = [s \in StaffUids |-> None]
  /\ adminFleet = [s \in StaffUids |->
       [vans |-> <<>>, images |-> {}, loading |-> TRUE, fetching |-> TRUE,
        dialogOpen |-> FALSE, editingVan |-> None, form |-> None,
        newImageFiles |-> 0, toast |-> NoToast]]
  /\ api = [o \in ApiCallers |-> NoResponse]
  /\ route = [t \in StaffUids |-> Mounting]

(***************************************************************************)
(* Index page: catalog, booking form.                                      *)
(***************************************************************************)
\* every arrangement of a set of rows in a sequence
Arrangements(rows) ==
  {seq \in [1..Cardinality(rows) -> rows] :
     \A n, m \in 1..Cardinality(rows) : n # m => seq[n] # seq[m]}

\* a query without .order("sort_order")
OrderBySortOrder_Unordered(rows) == Arrangements(rows)

\* .order("sort_order"): the rows in ascending sort_order, rows of equal
\* sort_order in any order
OrderBySortOrder(rows) ==
  {seq \in Arrangements(rows) :
     \A n, m \in 1..Cardinality(rows) : n < m => seq[n].sort_order <= seq[m].sort_order}

\* {...v, images}
WithImages(row, images) ==
  [name |-> row.name, model |-> row.model, image_url |-> row.image_url,
   price_per_day |-> row.price_per_day, status |-> row.status, images |-> images]

\* useEffect load() up to its second await: the available vans as the
\* anonymous key sees them.  While loading, index[c].vans holds vansRaw; with
\* no van in it no images are asked for and load() ends here.
load(c) ==
  /\ index[c].loading /\ DOMAIN index[c].vans = {}
  /\ LET vanIds == {w \in DOMAIN vans :
                      vans_select(NullUid, vans[w]) /\ vans[w].status = "available"}
     IN  index' = [index EXCEPT
           ![c].vans = [v \in vanIds |-> WithImages(vans[v], <<>>)],
           ![c].loading = (vanIds # {})]
  /\ UNCHANGED <<route, store, inserts, lookups, staffPages, api>>

\* load() after its second await: the van_images rows of the vans of vansRaw,
\* ordered by sort_order, put under their vans
loadImages(c) ==
  /\ index[c].loading /\ DOMAIN index[c].vans # {}
  /\ LET vanIds == DOMAIN index[c].vans
         imagesData == {img \in van_images :
                          van_images_select(NullUid, img) /\ img.van_id \in vanIds}
     IN  \E ordered \in OrderBySortOrder(imagesData) :
           index' = [index EXCEPT
             ![c].vans = [v \in vanIds |->
                            WithImages(index[c].vans[v],
                                       SelectSeq(ordered, LAMBDA img : img.van_id = v))],
             ![c].loading = FALSE]
  /\ UNCHANGED <<route, store, inserts, lookups, staffPages, api>>

openBooking(c, v) ==
  /\ ~index[c].loading /\ ~index[c].bookingOpen /\ ~index[c].successOpen
  /\ v \in DOMAIN index[c].vans
  /\ index' = [index EXCEPT
       ![c].selectedVan = Some([id |-> v, price_per_day |-> index[c].vans[v].price_per_day]),
       ![c].bookingOpen = TRUE]
  /\ UNCHANGED <<route, store, inserts, lookups, staffPages, api>>

\* start-date calendar: disabled={(d) => !isAfter(d, new Date())}
selectStartDate(c, d) ==
  /\ index[c].bookingOpen /\ ~index[c].submitting
  /\ isAfter(d, Today) /\ index[c].startDate # d
  /\ index' = [index EXCEPT ![c].startDate = d]
  /\ UNCHANGED <<route, store, inserts, lookups, staffPages, api>>

\* end-date calendar: disabled={(d) => !startDate || !isAfter(d, startDate)}
selectEndDate(c, d) ==
  /\ index[c].bookingOpen /\ ~index[c].submitting
  /\ index[c].startDate # None /\ isAfter(d, index[c].startDate)
  /\ index[c].endDate # d
  /\ index' = [index EXCEPT ![c].endDate = d]
  /\ UNCHANGED <<route, store, inserts, lookups, staffPages, api>>

\* phone numbers a customer types
PhoneInputs ==
  { <<"0","8","9","-","1","2","3"," ","4","5","6","7">>, <<"1","2","3","4","5">> }

typePhone(c, p) ==
  /\ index[c].bookingOpen /\ ~index[c].submitting
  /\ index[c].form.phone # p
  /\ index' = [index EXCEPT ![c].form.phone = p]
  /\ UNCHANGED <<route, store, inserts, lookups, staffPages, api>>

Digits == {"0","1","2","3","4","5","6","7","8","9"}

\* phone.replace(/[-\s]/g, "")
StripPhone(p) == SelectSeq(p, LAMBDA ch : ch # "-" /\ ch # " ")

\* /^(0[689]\d{8}|0[2-9]\d{7,8})$/
phoneRegexTest(p) ==
  /\ \A i \in DOMAIN p : p[i] \in Digits
  /\ Len(p) >= 2 /\ p[1] = "0"
  /\ \/ p[2] \in {"6", "8", "9"} /\ Len(p) = 10
     \/ p[2] \in Digits \ {"0", "1"} /\ Len(p) \in {9, 10}

days(c) ==
  IF index[c].startDate # None /\ index[c].endDate # None
  THEN differenceInDays(index[c].endDate, index[c].startDate) ELSE 0

totalPrice(c) ==
  IF index[c].selectedVan # None THEN days(c) * index[c].selectedVan[1].price_per_day ELSE 0

\* a handleSubmit that sets submitting before it validates the phone
handleSubmit_SubmittingFirst(c) ==
  /\ index[c].bookingOpen /\ ~index[c].submitting
  /\ \/ /\ index[c].selectedVan = None \/ index[c].startDate = None \/ index[c].endDate = None
        /\ UNCHANGED <<index, inserts>>
     \/ /\ index[c].selectedVan # None /\ index[c].startDate # None /\ index[c].endDate # None
        /\ ~phoneRegexTest(StripPhone(index[c].form.phone))
        /\ index' = [index EXCEPT ![c].toast = Toast("Invalid Phone", ""),
                                  ![c].submitting = TRUE]
        /\ UNCHANGED inserts
     \/ /\ index[c].selectedVan # None /\ index[c].startDate # None /\ index[c].endDate # None
        /\ phoneRegexTest(StripPhone(index[c].form.phone))
        /\ days(c) < 1
        /\ index' = [index EXCEPT ![c].toast = Toast("Invalid Dates", "")]
        /\ UNCHANGED inserts
     \/ /\ index[c].selectedVan # None /\ index[c].startDate # None /\ index[c].endDate # None
        /\ phoneRegexTest(StripPhone(index[c].form.phone))
        /\ days(c) >= 1
        /\ Len(bookings) + InsertsUnderWay < MaxBookings
        /\ index' = [index EXCEPT ![c].submitting = TRUE]
        /\ inserts' = [inserts EXCEPT ![Tab(c)] = Some(
             [new_row |-> [id |-> 0,
                       customer_phone |-> StripPhone(index[c].form.phone),
                       van_id |-> index[c].selectedVan[1].id,
                       start_date |-> index[c].startDate,
                       end_date |-> index[c].endDate,
                       total_price |-> totalPrice(c),
                       status |-> "pending",
                       booking_code |-> <<>>],
              coded |-> FALSE])]
  /\ UNCHANGED <<route, store, lookups, staffPages, api>>

\* handleSubmit up to its await: the checks, then the INSERT is sent
handleSubmit(c) ==
  /\ index[c].bookingOpen /\ ~index[c].submitting
  /\ \/ /\ index[c].selectedVan = None \/ index[c].startDate = None \/ index[c].endDate = None
        /\ UNCHANGED <<index, inserts>>
     \/ /\ index[c].selectedVan # None /\ index[c].startDate # None /\ index[c].endDate # None
        /\ ~phoneRegexTest(StripPhone(index[c].form.phone))
        /\ index' = [index EXCEPT ![c].toast = Toast("Invalid Phone", "")]
        /\ UNCHANGED inserts
     \/ /\ index[c].selectedVan # None /\ index[c].startDate # None /\ index[c].endDate # None
        /\ phoneRegexTest(StripPhone(index[c].form.phone))
        /\ days(c) < 1
        /\ index' = [index EXCEPT ![c].toast = Toast("Invalid Dates", "")]
        /\ UNCHANGED inserts
     \/ /\ index[c].selectedVan # None /\ index[c].startDate # None /\ index[c].endDate # None
        /\ phoneRegexTest(StripPhone(index[c].form.phone))
        /\ days(c) >= 1
        /\ Len(bookings) + InsertsUnderWay < MaxBookings
        /\ index' = [index EXCEPT ![c].submitting = TRUE]
        /\ inserts' = [inserts EXCEPT ![Tab(c)] = Some(
             [new_row |-> [id |-> 0,
                       customer_phone |-> StripPhone(index[c].form.phone),
                       van_id |-> index[c].selectedVan[1].id,
                       start_date |-> index[c].startDate,
                       end_date |-> index[c].endDate,
                       total_price |-> totalPrice(c),
                       status |-> "pending",
                       booking_code |-> <<>>],
              coded |-> FALSE])]
  /\ UNCHANGED <<route, store, lookups, staffPages, api>>

\* a trigger that keeps a booking_code the caller supplied
generate_booking_code_KeepSupplied(k) ==
  /\ inserts[k] # None /\ ~inserts[k][1].coded
  /\ \E seed \in Seeds :
       LET new_code == IF inserts[k][1].new_row.booking_code # <<>>
                       THEN inserts[k][1].new_row.booking_code
                       ELSE CandidateCode(seed)
           code_exists == CodeExists(new_code)
       IN  IF ~code_exists
           THEN inserts' = [inserts EXCEPT ![k] = Some(
                  [new_row |-> [inserts[k][1].new_row EXCEPT !.booking_code = new_code],
                   coded |-> TRUE])]
           ELSE UNCHANGED inserts
  /\ UNCHANGED <<route, store, index, lookups, staffPages, api>>

\* one pass of the LOOP of trigger set_booking_code, run BEFORE INSERT
generate_booking_code(k) ==
  /\ inserts[k] # None /\ ~inserts[k][1].coded
  /\ \E seed \in Seeds :
       LET new_code == CandidateCode(seed)
           code_exists == CodeExists(new_code)
       IN  IF ~code_exists
           THEN inserts' = [inserts EXCEPT ![k] = Some(
                  [new_row |-> [inserts[k][1].new_row EXCEPT !.booking_code = new_code],
                   coded |-> TRUE])]
           ELSE UNCHANGED inserts
  /\ UNCHANGED <<route, store, index, lookups, staffPages, api>>

\* a handleSubmit that resets the form and the dates whatever the insert returned
handleSubmitInserted_ResetOnError(c) ==
  /\ inserts[Tab(c)] # None /\ inserts[Tab(c)][1].coded
  /\ LET new_row == inserts[Tab(c)][1].new_row
         error == InsertError(NullUid, new_row)
     IN  IF error # ""
         THEN /\ index' = [index EXCEPT ![c].toast = Toast("Booking Failed", error),
                                        ![c].form = EmptyForm,
                                        ![c].startDate = None,
                                        ![c].endDate = None,
                                        ![c].submitting = FALSE]
              /\ UNCHANGED <<bookings, fetches>>
         ELSE /\ bookings' = Append(bookings, StoredRow(new_row))
              /\ fetches' = NotifyBookings(fetches)
              /\ index' = [index EXCEPT
                   ![c].bookingCode = new_row.booking_code,
                   ![c].bookingOpen = FALSE,
                   ![c].successOpen = TRUE,
                   ![c].form = EmptyForm,
                   ![c].startDate = None,
                   ![c].endDate = None,
                   ![c].submitting = FALSE]
  /\ inserts' = [inserts EXCEPT ![Tab(c)] = None]
  /\ UNCHANGED <<route, vans, van_images, lookups, adminBookings, updates, adminFleet, api>>

\* the INSERT of a customer's row is decided, and handleSubmit resumes
handleSubmitInserted(c) ==
  /\ inserts[Tab(c)] # None /\ inserts[Tab(c)][1].coded
  /\ LET new_row == inserts[Tab(c)][1].new_row
         error == InsertError(NullUid, new_row)
     IN  IF error # ""
         THEN /\ index' = [index EXCEPT ![c].toast = Toast("Booking Failed", error),
                                        ![c].submitting = FALSE]
              /\ UNCHANGED <<bookings, fetches>>
         ELSE /\ bookings' = Append(bookings, StoredRow(new_row))
              /\ fetches' = NotifyBookings(fetches)
              /\ index' = [index EXCEPT
                   ![c].bookingCode = new_row.booking_code,
                   ![c].bookingOpen = FALSE,
                   ![c].successOpen = TRUE,
                   ![c].form = EmptyForm,
                   ![c].startDate = None,
                   ![c].endDate = None,
                   ![c].submitting = FALSE]
  /\ inserts' = [inserts EXCEPT ![Tab(c)] = None]
  /\ UNCHANGED <<route, vans, van_images, lookups, adminBookings, updates, adminFleet, api>>

(***************************************************************************)
(* Index page: booking lookup dialog.                                      *)
(***************************************************************************)
\* what a customer types into the lookup field
TypedCodes ==
  { <<" ">> \o Substr1(Md5[seed], CodeLen) \o <<" ">> : seed \in Seeds }
    \cup { <<" ", " ">>, <<"z","z","z","z","z","z">> }

\* onChange: setLookupCode(e.target.value.toUpperCase())
typeLookupCode(c, typed) ==
  /\ index[c].lookupCode # ToUpperCase(typed)
  /\ index' = [index EXCEPT ![c].lookupCode = ToUpperCase(typed)]
  /\ UNCHANGED <<route, store, inserts, lookups, staffPages, api>>

\* handleLookup up to its await
handleLookup(c) ==
  /\ \/ /\ Trim(index[c].lookupCode) = <<>>
        /\ UNCHANGED <<index, lookups>>
     \/ /\ Trim(index[c].lookupCode) # <<>>
        /\ index' = [index EXCEPT ![c].lookupLoading = TRUE,
                                  ![c].lookupError = "",
                                  ![c].lookupResult = None]
        /\ lookups' = [lookups EXCEPT
             ![c] = @ \cup {ToUpperCase(Trim(index[c].lookupCode))}]
  /\ UNCHANGED <<route, store, inserts, staffPages, api>>

\* select("*, vans(name, model, image_url)").eq("booking_code", code), as uid sees it
SelectByCode(uid, code) ==
  { [booking |-> bookings[i], vans |-> EmbedVan(uid, bookings[i].van_id)] :
      i \in {j \in BookingIds : bookings_select(uid, bookings[j])
                                 /\ bookings[j].booking_code = code} }

\* handleLookup after its await; maybeSingle() is an error on several rows
handleLookupDone(c, code) ==
  /\ code \in lookups[c]
  /\ LET found == SelectByCode(NullUid, code)
         error == Cardinality(found) > 1
     IN  IF error \/ found = {}
         THEN index' = [index EXCEPT ![c].lookupError = "not found",
                                     ![c].lookupLoading = FALSE]
         ELSE index' = [index EXCEPT
                ![c].lookupResult = Some(CHOOSE data \in found : TRUE),
                ![c].lookupLoading = FALSE]
  /\ lookups' = [lookups EXCEPT ![c] = @ \ {code}]
  /\ UNCHANGED <<route, store, inserts, staffPages, api>>

(***************************************************************************)
(* AdminBookings page.                                                     *)
(***************************************************************************)
Filters == {"all", "pending", "confirmed", "completed", "cancelled"}

\* an ordering that keeps the oldest row first
Reverse_Ascending(seq) == seq

\* rows in descending order of created_at
Reverse(seq) == [i \in 1..Len(seq) |-> seq[Len(seq) + 1 - i]]

\* a query that drops the .eq("status", filter)
SelectBookings_Unfiltered(uid, filter) ==
  SelectSeq(Reverse(bookings), LAMBDA row : bookings_select(uid, row))

\* select(...).order("created_at", {ascending: false}), with .eq("status", filter)
\* unless the filter is "all", as uid sees it
SelectBookings(uid, filter) ==
  SelectSeq(Reverse(bookings),
            LAMBDA row : bookings_select(uid, row)
                         /\ (filter # "all" => row.status = filter))

\* fetchBookings after its await
fetchBookingsDone(s, filter) ==
  /\ filter \in fetches[s]
  /\ adminBookings' = [adminBookings EXCEPT
       ![s].bookings = SelectBookings(s, filter), ![s].loading = FALSE]
  /\ fetches' = [fetches EXCEPT ![s] = @ \ {filter}]
  /\ UNCHANGED <<route, store, inserts, index, lookups, updates, adminFleet, api>>

\* onValueChange={setFilter}; the effect on fetchBookings sets loading and fetches
setFilter(s, filter) ==
  /\ filter \in Filters /\ filter # adminBookings[s].filter
  /\ adminBookings' = [adminBookings EXCEPT ![s].filter = filter, ![s].loading = TRUE]
  /\ fetches' = [fetches EXCEPT ![s] = @ \cup {filter}]
  /\ UNCHANGED <<route, store, inserts, index, lookups, updates, adminFleet, api>>

\* the buttons shown for a listed booking
Buttons(row) ==
  IF row.status = "pending" THEN {"confirmed", "cancelled"}
  ELSE IF row.status = "confirmed" THEN {"completed"}
  ELSE {}

\* a click on a button of the n-th listed booking: updateStatus up to its await
updateStatus(s, n, status) ==
  /\ ~adminBookings[s].loading
  /\ updates[s] = None
  /\ n \in 1..Len(adminBookings[s].bookings)
  /\ status \in Buttons(adminBookings[s].bookings[n])
  /\ updates' = [updates EXCEPT ![s] = Some(
       [id |-> adminBookings[s].bookings[n].id, status |-> status,
        replied |-> FALSE, error |-> ""])]
  /\ UNCHANGED <<route, store, inserts, index, lookups, adminBookings, fetches, adminFleet, api>>

\* updateStatus(id, status) up to its await, called with any id: the id of a
\* listed booking or one that no row of bookings has
updateStatusCall(s, id, status) ==
  /\ ~adminBookings[s].loading
  /\ updates[s] = None
  /\ updates' = [updates EXCEPT ![s] = Some(
       [id |-> id, status |-> status, replied |-> FALSE, error |-> ""])]
  /\ UNCHANGED <<route, store, inserts, index, lookups, adminBookings, fetches, adminFleet, api>>

\* rows that UPDATE bookings ... WHERE id = id touches for uid
UpdatableBookings(uid, id) ==
  {i \in BookingIds : bookings[i].id = id /\ bookings_update(uid)}

\* an UPDATE that also recomputes total_price from the van's present price
UpdateBookingStatus_Repriced(uid, id, status) ==
  [i \in BookingIds |->
     IF i \in UpdatableBookings(uid, id)
     THEN [bookings[i] EXCEPT
             !.status = status,
             !.total_price = vans[bookings[i].van_id].price_per_day
                               * differenceInDays(bookings[i].end_date, bookings[i].start_date)]
     ELSE bookings[i]]

\* UPDATE bookings SET status = status WHERE id = id, run for uid
UpdateBookingStatus(uid, id, status) ==
  [i \in BookingIds |->
     IF i \in UpdatableBookings(uid, id)
     THEN [bookings[i] EXCEPT !.status = status] ELSE bookings[i]]

\* a store that refuses an UPDATE to the status the row already has
updateStatusApplied_RejectSame(s) ==
  /\ updates[s] # None /\ ~updates[s][1].replied
  /\ LET same == \E i \in UpdatableBookings(s, updates[s][1].id) :
                    bookings[i].status = updates[s][1].status
     IN  IF same
         THEN /\ updates' = [updates EXCEPT ![s] =
                   Some([@[1] EXCEPT !.replied = TRUE, !.error = "conflict"])]
              /\ UNCHANGED <<bookings, fetches>>
         ELSE /\ bookings' = UpdateBookingStatus(s, updates[s][1].id, updates[s][1].status)
              /\ fetches' = IF UpdatableBookings(s, updates[s][1].id) # {}
                            THEN NotifyBookings(fetches) ELSE fetches
              /\ updates' = [updates EXCEPT ![s] = Some([@[1] EXCEPT !.replied = TRUE])]
  /\ UNCHANGED <<route, vans, van_images, inserts, index, lookups, adminBookings, adminFleet, api>>

\* the store runs the UPDATE of an updateStatus call and replies
updateStatusApplied(s) ==
  /\ updates[s] # None /\ ~updates[s][1].replied
  /\ bookings' = UpdateBookingStatus(s, updates[s][1].id, updates[s][1].status)
  /\ fetches' = IF UpdatableBookings(s, updates[s][1].id) # {}
                THEN NotifyBookings(fetches) ELSE fetches
  /\ updates' = [updates EXCEPT ![s] = Some([@[1] EXCEPT !.replied = TRUE])]
  /\ UNCHANGED <<route, vans, van_images, inserts, index, lookups, adminBookings, adminFleet, api>>

\* updateStatus after its await
updateStatusReturned(s) ==
  /\ updates[s] # None /\ updates[s][1].replied
  /\ IF updates[s][1].error # ""
     THEN /\ adminBookings' = [adminBookings EXCEPT ![s].toast = Toast("Error", updates[s][1].error)]
          /\ UNCHANGED fetches
     ELSE /\ adminBookings' = [adminBookings EXCEPT ![s].toast = Toast("Status Updated", updates[s][1].status)]
          /\ fetches' = [fetches EXCEPT ![s] = @ \cup {adminBookings[s].filter}]
  /\ updates' = [updates EXCEPT ![s] = None]
  /\ UNCHANGED <<route, store, inserts, index, lookups, adminFleet, api>>

(***************************************************************************)
(* AdminFleet page.                                                        *)
(***************************************************************************)
\* fetchVans after its await
fetchVansDone(s) ==
  /\ adminFleet[s].fetching
  /\ adminFleet' = [adminFleet EXCEPT
       ![s].vans = [v \in {w \in DOMAIN vans : vans_select(s, vans[w])} |-> vans[v]],
       ![s].images = {img \in van_images : van_images_select(s, img)},
       ![s].loading = FALSE, ![s].fetching = FALSE]
  /\ UNCHANGED <<route, store, inserts, index, lookups, adminBookings, fetches, updates, api>>

\* UPDATE vans SET ... WHERE id = v, run for uid
UpdateVan(uid, v, row) ==
  IF v \in DOMAIN vans /\ vans_update(uid) THEN [vans EXCEPT ![v] = row] ELSE vans

\* toggleStatus of a listed van
toggleStatus(s, v) ==
  /\ ~adminFleet[s].loading
  /\ v \in DOMAIN adminFleet[s].vans
  /\ LET newStatus == IF adminFleet[s].vans[v].status = "available"
                      THEN "hidden" ELSE "available"
     IN  vans' = IF v \in DOMAIN vans
                 THEN UpdateVan(s, v, [vans[v] EXCEPT !.status = newStatus])
                 ELSE vans
  /\ adminFleet' = [adminFleet EXCEPT ![s].fetching = TRUE]
  /\ UNCHANGED <<route, bookings, van_images, inserts, index, lookups,
                 adminBookings, fetches, updates, api>>

\* files picked as additional images in the fleet dialog, at most
MaxNewFiles == 1

ImageIdsOf(images) == {img.id : img \in images}

FreeImageIds == ImageIds \ ImageIdsOf(van_images)

\* maxOrder of handleSave: additionalImages.reduce((max, img) => Math.max(max, img.sort_order), 0)
MaxOrder(images) ==
  IF images = {} THEN 0
  ELSE LET m == CHOOSE x \in {img.sort_order : img \in images} :
                  \A y \in {img.sort_order : img \in images} : y <= x
       IN  IF m > 0 THEN m ELSE 0

\* INSERT INTO van_images (van_id, image_url, sort_order), run for uid
InsertVanImage(uid, images, van_id, sort_order) ==
  IF van_images_insert(uid) /\ van_id \in DOMAIN vans /\ ImageIds \ ImageIdsOf(images) # {}
  THEN images \cup {[id |-> CHOOSE id \in ImageIds \ ImageIdsOf(images) : TRUE,
                     van_id |-> van_id, sort_order |-> sort_order]}
  ELSE images

\* the loop of handleSave over newImageFiles, from file i on
RECURSIVE InsertNewImages(_, _, _, _, _, _)
InsertNewImages(uid, images, vanId, maxOrder, i, files) ==
  IF i >= files THEN images
  ELSE InsertNewImages(uid, InsertVanImage(uid, images, vanId, maxOrder + i + 1),
                       vanId, maxOrder, i + 1, files)

\* openEditDialog of a listed van, a daily price typed, files picked, handleSave
\* with no primary image selected: the whole form, taken from the listed row,
\* is written, then one van_images row per picked file
handleSave(s, v, price, files) ==
  /\ ~adminFleet[s].loading
  /\ v \in DOMAIN adminFleet[s].vans
  /\ price \in FormPrices
  /\ files \in 0..MaxNewFiles /\ files <= Cardinality(FreeImageIds)
  /\ vans' = UpdateVan(s, v, [adminFleet[s].vans[v] EXCEPT !.price_per_day = price])
  /\ LET additionalImages == {img \in adminFleet[s].images : img.van_id = v}
     IN  van_images' = InsertNewImages(s, van_images, v, MaxOrder(additionalImages), 0, files)
  /\ adminFleet' = [adminFleet EXCEPT
       ![s].editingVan = Some(v),
       ![s].form = Some([adminFleet[s].vans[v] EXCEPT !.price_per_day = price]),
       ![s].newImageFiles = files,
       ![s].toast = Toast("Van Updated", ""),
       ![s].dialogOpen = FALSE,
       ![s].fetching = TRUE]
  /\ UNCHANGED <<route, bookings, inserts, index, lookups, adminBookings, fetches, updates, api>>

\* the same call when uploadImage of picked file number thrown throws: the van
\* row is written and the files before it are stored, then the catch block
\* reports the error and the dialog stays open
handleSaveThrown(s, v, price, files, thrown) ==
  /\ ~adminFleet[s].loading
  /\ v \in DOMAIN adminFleet[s].vans
  /\ price \in FormPrices
  /\ files \in 1..MaxNewFiles /\ files <= Cardinality(FreeImageIds)
  /\ thrown \in 0..(files - 1)
  /\ vans' = UpdateVan(s, v, [adminFleet[s].vans[v] EXCEPT !.price_per_day = price])
  /\ LET additionalImages == {img \in adminFleet[s].images : img.van_id = v}
     IN  van_images' = InsertNewImages(s, van_images, v, MaxOrder(additionalImages), 0, thrown)
  /\ adminFleet' = [adminFleet EXCEPT
       ![s].editingVan = Some(v),
       ![s].form = Some([adminFleet[s].vans[v] EXCEPT !.price_per_day = price]),
       ![s].newImageFiles = files,
       ![s].toast = Toast("Error", ""),
       ![s].dialogOpen = TRUE]
  /\ UNCHANGED <<route, bookings, inserts, index, lookups, adminBookings, fetches, updates, api>>

\* DELETE FROM van_images WHERE id = imageId, run for uid
DeleteVanImage(uid, imageId) ==
  IF van_images_delete(uid) THEN {img \in van_images : img.id # imageId} ELSE van_images

\* handleDeleteImage of a listed image
handleDeleteImage(s, imageId) ==
  /\ ~adminFleet[s].loading
  /\ imageId \in {img.id : img \in adminFleet[s].images}
  /\ van_images' = DeleteVanImage(s, imageId)
  /\ adminFleet' = [adminFleet EXCEPT
       ![s].images = {img \in @ : img.id # imageId}]
  /\ UNCHANGED <<route, vans, bookings, inserts, index, lookups, adminBookings,
                 fetches, updates, api>>

(***************************************************************************)
(* Direct calls of the REST interface by callers without a profile.        *)
(***************************************************************************)
\* update({status}).eq("id", id) on bookings
ApiUpdateBooking(o, id, status) ==
  /\ id \in BookingIds /\ status \in booking_status
  /\ bookings' = UpdateBookingStatus(o, id, status)
  /\ fetches' = IF UpdatableBookings(o, id) # {}
                THEN NotifyBookings(fetches) ELSE fetches
  /\ api' = [api EXCEPT ![o] =
       Response("update bookings", "", Cardinality(UpdatableBookings(o, id)), None, {})]
  /\ UNCHANGED <<route, vans, van_images, inserts, index, lookups, adminBookings,
                 updates, adminFleet>>

\* delete().eq("id", id) on bookings
ApiDeleteBooking(o, id) ==
  /\ id \in BookingIds
  /\ LET kept == SelectSeq(bookings, LAMBDA row : ~(row.id = id /\ bookings_delete(o)))
     IN  /\ bookings' = kept
         /\ fetches' = IF kept # bookings THEN NotifyBookings(fetches) ELSE fetches
         /\ api' = [api EXCEPT ![o] =
               Response("delete bookings", "", Len(bookings) - Len(kept), None, {})]
  /\ UNCHANGED <<route, vans, van_images, inserts, index, lookups, adminBookings,
                 updates, adminFleet>>

NewVanRow(price) ==
  [name |-> "", model |-> "", image_url |-> "", price_per_day |-> price,
   status |-> "available"]

\* insert(payload) on vans
ApiInsertVan(o, price) ==
  /\ price \in FormPrices
  /\ VanIds \ DOMAIN vans # {}
  /\ IF vans_insert(o)
     THEN /\ vans' = LET v == CHOOSE w \in VanIds \ DOMAIN vans : TRUE
                     IN  [w \in DOMAIN vans \cup {v} |->
                            IF w = v THEN NewVanRow(price) ELSE vans[w]]
          /\ api' = [api EXCEPT ![o] = Response("insert vans", "", 1, None, {})]
     ELSE /\ UNCHANGED vans
          /\ api' = [api EXCEPT ![o] = Response("insert vans", "42501", 0, None, {})]
  /\ UNCHANGED <<route, bookings, van_images, inserts, index, lookups, staffPages>>

\* update({price_per_day}).eq("id", v) on vans
ApiUpdateVan(o, v, price) ==
  /\ v \in DOMAIN vans /\ price \in FormPrices
  /\ vans' = UpdateVan(o, v, [vans[v] EXCEPT !.price_per_day = price])
  /\ api' = [api EXCEPT ![o] =
       Response("update vans", "", IF vans_update(o) THEN 1 ELSE 0, None, {})]
  /\ UNCHANGED <<route, bookings, van_images, inserts, index, lookups, staffPages>>

\* a foreign key that lets a referenced van go
DeleteRestricted_Never(v) == FALSE

\* bookings.van_id REFERENCES vans(id) ON DELETE RESTRICT
DeleteRestricted(v) == \E i \in BookingIds : bookings[i].van_id = v

\* delete().eq("id", v) on vans; van_images rows go with it (ON DELETE CASCADE)
ApiDeleteVan(o, v) ==
  /\ v \in DOMAIN vans
  /\ IF ~vans_delete(o)
     THEN /\ UNCHANGED <<vans, van_images>>
          /\ api' = [api EXCEPT ![o] = Response("delete vans", "", 0, None, {})]
     ELSE IF DeleteRestricted(v)
     THEN /\ UNCHANGED <<vans, van_images>>
          /\ api' = [api EXCEPT ![o] = Response("delete vans", "23503", 0, None, {})]
     ELSE /\ vans' = [w \in DOMAIN vans \ {v} |-> vans[w]]
          /\ van_images' = {img \in van_images : img.van_id # v}
          /\ api' = [api EXCEPT ![o] = Response("delete vans", "", 1, None, {})]
  /\ UNCHANGED <<route, bookings, inserts, index, lookups, staffPages>>

\* insert({van_id, image_url, sort_order}) on van_images
ApiInsertVanImage(o, v) ==
  /\ v \in DOMAIN vans /\ FreeImageIds # {}
  /\ van_images' = InsertVanImage(o, van_images, v, 0)
  /\ api' = [api EXCEPT ![o] =
       IF van_images_insert(o) THEN Response("insert van_images", "", 1, None, {})
       ELSE Response("insert van_images", "42501", 0, None, {})]
  /\ UNCHANGED <<route, vans, bookings, inserts, index, lookups, staffPages>>

\* update({sort_order}).eq("id", imageId) on van_images
ApiUpdateVanImage(o, imageId, sort_order) ==
  /\ imageId \in {img.id : img \in van_images} /\ sort_order \in 0..MaxImages
  /\ van_images' =
       IF van_images_update(o)
       THEN {IF img.id = imageId THEN [img EXCEPT !.sort_order = sort_order] ELSE img :
               img \in van_images}
       ELSE van_images
  /\ api' = [api EXCEPT ![o] =
       Response("update van_images", "", IF van_images_update(o) THEN 1 ELSE 0, None, {})]
  /\ UNCHANGED <<route, vans, bookings, inserts, index, lookups, staffPages>>

\* delete().eq("id", imageId) on van_images
ApiDeleteVanImage(o, imageId) ==
  /\ imageId \in {img.id : img \in van_images}
  /\ van_images' = DeleteVanImage(o, imageId)
  /\ api' = [api EXCEPT ![o] =
       Response("delete van_images", "", IF van_images_delete(o) THEN 1 ELSE 0, None, {})]
  /\ UNCHANGED <<route, vans, bookings, inserts, index, lookups, staffPages>>

\* select("*") on bookings, with .eq("booking_code", code) when a filter is given
ApiSelectBookings(o, filter) ==
  /\ filter \in {None} \cup {Some(CandidateCode(seed)) : seed \in Seeds}
  /\ LET rows == {bookings[i] : i \in {j \in BookingIds :
                    /\ bookings_select(o, bookings[j])
                    /\ filter # None => bookings[j].booking_code = filter[1]}}
     IN  api' = [api EXCEPT ![o] =
           Response("select bookings", "", Cardinality(rows), filter, rows)]
  /\ UNCHANGED <<route, store, inserts, index, lookups, staffPages>>

\* rows a direct caller posts to bookings
ApiRows ==
  { [id |-> 0, customer_phone |-> <<"1","2","3","4","5">>, van_id |-> 1,
     start_date |-> <<2025, 6, 13>>, end_date |-> <<2025, 6, 13>>,
     total_price |-> 1, status |-> "confirmed",
     booking_code |-> <<"M","Y","C","O","D","E">>],
    [id |-> 0, customer_phone |-> <<"1","2","3","4","5">>, van_id |-> MaxVans + 1,
     start_date |-> <<2025, 6, 10>>, end_date |-> <<2025, 6, 11>>,
     total_price |-> 1, status |-> "pending",
     booking_code |-> <<>>] }

\* insert(row) on bookings: the INSERT is sent
ApiInsertBooking(o, row) ==
  /\ row \in ApiRows
  /\ inserts[Direct(o)] = None
  /\ Len(bookings) + InsertsUnderWay < MaxBookings
  /\ inserts' = [inserts EXCEPT ![Direct(o)] = Some([new_row |-> row, coded |-> FALSE])]
  /\ UNCHANGED <<route, store, index, lookups, staffPages, api>>

\* the INSERT of a direct caller's row is decided
ApiInsertBookingDone(o) ==
  /\ inserts[Direct(o)] # None /\ inserts[Direct(o)][1].coded
  /\ LET new_row == inserts[Direct(o)][1].new_row
         error == InsertError(o, new_row)
     IN  IF error # ""
         THEN /\ api' = [api EXCEPT ![o] = Response("insert bookings", error, 0, None, {})]
              /\ UNCHANGED <<bookings, fetches>>
         ELSE /\ bookings' = Append(bookings, StoredRow(new_row))
              /\ fetches' = NotifyBookings(fetches)
              /\ api' = [api EXCEPT ![o] =
                   Response("insert bookings", "", 1, None, {StoredRow(new_row)})]
  /\ inserts' = [inserts EXCEPT ![Direct(o)] = None]
  /\ UNCHANGED <<route, vans, van_images, index, lookups, adminBookings, updates, adminFleet>>

(***************************************************************************)
(* Specifications.                                                         *)
(***************************************************************************)
CustomerBooking(c) ==
  \/ load(c)
  \/ loadImages(c)
  \/ \E v \in VanIds : openBooking(c, v)
  \/ \E d \in CalendarDays : selectStartDate(c, d)
  \/ \E d \in CalendarDays : selectEndDate(c, d)
  \/ \E p \in PhoneInputs : typePhone(c, p)
  \/ handleSubmit(c)
  \/ generate_booking_code(Tab(c))
  \/ handleSubmitInserted(c)

CustomerLookup(c) ==
  \/ \E typed \in TypedCodes : typeLookupCode(c, typed)
  \/ handleLookup(c)
  \/ \E code \in lookups[c] : handleLookupDone(c, code)

StaffBookings(s) ==
  \/ \E filter \in fetches[s] : fetchBookingsDone(s, filter)
  \/ \E n \in 1..MaxBookings, status \in booking_status : updateStatus(s, n, status)
  \/ updateStatusApplied(s)
  \/ updateStatusReturned(s)

StaffFleet(s) ==
  \/ fetchVansDone(s)
  \/ \E v \in VanIds : toggleStatus(s, v)
  \/ \E v \in VanIds, price \in FormPrices, files \in 0..MaxNewFiles :
       handleSave(s, v, price, files)
  \/ \E imageId \in ImageIds : handleDeleteImage(s, imageId)

DirectWrites(o) ==
  \/ \E id \in 1..MaxBookings, status \in booking_status : ApiUpdateBooking(o, id, status)
  \/ \E price \in FormPrices : ApiInsertVan(o, price)
  \/ \E v \in VanIds, price \in FormPrices : ApiUpdateVan(o, v, price)
  \/ \E v \in VanIds : ApiDeleteVan(o, v)
  \/ \E v \in VanIds : ApiInsertVanImage(o, v)
  \/ \E imageId \in ImageIds, sort_order \in 0..MaxImages :
       ApiUpdateVanImage(o, imageId, sort_order)
  \/ \E imageId \in ImageIds : ApiDeleteVanImage(o, imageId)

DirectBookings(o) ==
  \/ \E row \in ApiRows : ApiInsertBooking(o, row)
  \/ generate_booking_code(Direct(o))
  \/ ApiInsertBookingDone(o)

\* the whole system
Next ==
  \/ \E c \in Customers : CustomerBooking(c) \/ CustomerLookup(c)
  \/ \E s \in StaffUids : StaffBookings(s) \/ StaffFleet(s)
  \/ \E o \in Outsiders : DirectWrites(o) \/ DirectBookings(o)
  \/ \E o \in Outsiders, filter \in {None} \cup {Some(CandidateCode(seed)) : seed \in Seeds} :
       ApiSelectBookings(o, filter)

Spec == Init /\ [][Next]_vars

\* bookings made concurrently from two customer tabs and by a direct caller
NextCreate ==
  \/ \E c \in {1, 2} : CustomerBooking(c)
  \/ DirectBookings(NullUid)

SpecCreate == Init /\ [][NextCreate]_vars

\* a customer books while a staff member edits the fleet
NextPrice ==
  \/ CustomerBooking(1)
  \/ StaffFleet(1)

SpecPrice == Init /\ [][NextPrice]_vars

\* a customer books, two staff tabs work on the bookings
NextStatus ==
  \/ CustomerBooking(1)
  \/ \E s \in {1, 2} : StaffBookings(s)

SpecStatus == Init /\ [][NextStatus]_vars

\* a customer books and looks the booking up, a staff member edits the fleet,
\* the anonymous key reads the bookings table
NextLookup ==
  \/ CustomerBooking(1)
  \/ CustomerLookup(1)
  \/ fetchVansDone(1)
  \/ \E v \in VanIds : toggleStatus(1, v)
  \/ \E filter \in {None} \cup {Some(CandidateCode(seed)) : seed \in Seeds} :
       ApiSelectBookings(NullUid, filter)

SpecLookup == Init /\ [][NextLookup]_vars

\* bookings arrive, a staff member edits the fleet, callers without a
\* profile try every write
NextAuth ==
  \/ DirectBookings(NullUid)
  \/ fetchVansDone(1)
  \/ \E v \in VanIds, price \in FormPrices, files \in 0..MaxNewFiles :
       handleSave(1, v, price, files)
  \/ \E o \in Outsiders : DirectWrites(o)

SpecAuth == Init /\ [][NextAuth]_vars

\* a customer books, a staff member works on the bookings and edits the fleet
NextFrame ==
  \/ CustomerBooking(1)
  \/ StaffBookings(1)
  \/ fetchVansDone(1)
  \/ \E v \in VanIds, price \in FormPrices, files \in 0..MaxNewFiles :
       handleSave(1, v, price, files)

SpecFrame == Init /\ [][NextFrame]_vars

\* bookings arrive through the REST interface while the admin adds and
\* deletes vans
NextRef ==
  \/ DirectBookings(NullUid)
  \/ \E price \in FormPrices : ApiInsertVan(1, price)
  \/ \E v \in VanIds : ApiDeleteVan(1, v)

SpecRef == Init /\ [][NextRef]_vars

\* a customer books, a staff tab calls updateStatus with ids that are stored
\* and with ids that are not
NextCall ==
  \/ CustomerBooking(1)
  \/ \E filter \in fetches[1] : fetchBookingsDone(1, filter)
  \/ \E id \in 1..(MaxBookings + 1), status \in {"confirmed", "cancelled", "completed"} :
       updateStatusCall(1, id, status)
  \/ updateStatusApplied(1)
  \/ updateStatusReturned(1)

SpecCall == Init /\ [][NextCall]_vars

\* a customer books, a staff tab works on the bookings, and a second staff
\* account sets status proceed through the REST interface: no page sends it
NextProceed ==
  \/ CustomerBooking(1)
  \/ StaffBookings(1)
  \/ \E id \in 1..MaxBookings : ApiUpdateBooking(2, id, "proceed")

SpecProceed == Init /\ [][NextProceed]_vars

\* a customer books and looks the codes up, a staff tab changes statuses and
\* lists the bookings under the filters pending and confirmed
NextRead ==
  \/ CustomerBooking(1)
  \/ \E seed \in Seeds : typeLookupCode(1, Substr1(Md5[seed], CodeLen))
  \/ handleLookup(1)
  \/ \E code \in lookups[1] : handleLookupDone(1, code)
  \/ StaffBookings(1)
  \/ \E filter \in {"pending", "confirmed"} : setFilter(1, filter)

SpecRead == Init /\ [][NextRead]_vars

\* a customer books and a row arrives through the REST interface, a staff
\* tab lists the bookings under every filter of the select box
NextList ==
  \/ CustomerBooking(1)
  \/ DirectBookings(NullUid)
  \/ \E filter \in fetches[1] : fetchBookingsDone(1, filter)
  \/ \E filter \in Filters : setFilter(1, filter)

SpecList == Init /\ [][NextList]_vars

\* a customer books, a staff tab works on the bookings, and every kind of
\* caller sends a DELETE of a booking and of its van through the REST interface
NextKeep ==
  \/ CustomerBooking(1)
  \/ StaffBookings(1)
  \/ \E o \in {1, 2, NullUid}, id \in 1..MaxBookings : ApiDeleteBooking(o, id)
  \/ \E v \in VanIds : ApiDeleteVan(1, v)

SpecKeep == Init /\ [][NextKeep]_vars

\* rows of van_images the catalog may meet, at most
MaxCatalogImages == 2

\* contents of the vans table the catalog may meet: the sample rows, each in
\* any status
CatalogVans ==
  UNION { { [v \in 1..n |-> [SampleVans[v] EXCEPT !.status = t[v]]] :
              t \in [1..n -> van_status] } : n \in 1..MaxVans }

\* contents of the van_images table the catalog may meet, for vans 1..n
CatalogImages(n) ==
  UNION { { {[id |-> i, van_id |-> t[i][1], sort_order |-> t[i][2]] : i \in ids} :
              t \in [ids -> (1..n) \X (1..MaxCatalogImages)] } :
          ids \in SUBSET (1..MaxCatalogImages) }

\* the Index page has just mounted over a fleet that staff have edited
InitCatalog ==
  /\ vans \in CatalogVans
  /\ van_images \in CatalogImages(MaxVans)
  /\ \A img \in van_images : img.van_id \in DOMAIN vans
  /\ bookings = <<>>
  /\ inserts = [k \in Callers |-> None]
  /\ index = [c \in Customers |->
       [loading |-> TRUE, vans |-> <<>>, selectedVan |-> None,
        startDate |-> None, endDate |-> None, form |-> EmptyForm,
        bookingOpen |-> FALSE, successOpen |-> FALSE, bookingCode |-> <<>>,
        submitting |-> FALSE, toast |-> NoToast,
        lookupCode |-> <<>>, lookupLoading |-> FALSE,
        lookupResult |-> None, lookupError |-> ""]]
  /\ lookups = [c \in Customers |-> {}]
  /\ adminBookings = [s \in StaffUids |->
       [bookings |-> <<>>, loading |-> TRUE, filter |-> "all", toast |-> NoToast]]
  /\ fetches = [s \in StaffUids |-> {"all"}]
  /\ updates = [s \in StaffUids |-> None]
  /\ adminFleet = [s \in StaffUids |->
       [vans |-> <<>>, images |-> {}, loading |-> TRUE, fetching |-> TRUE,
        dialogOpen |-> FALSE, editingVan |-> None, form |-> None,
        newImageFiles |-> 0, toast |-> NoToast]]
  /\ api = [o \in ApiCallers |-> NoResponse]
  /\ route = [t \in StaffUids |-> Mounting]

\* a customer tab loads the catalog while a staff tab shows and hides vans
\* and deletes images
NextCatalog ==
  \/ load(1)
  \/ loadImages(1)
  \/ fetchVansDone(1)
  \/ \E v \in VanIds : toggleStatus(1, v)
  \/ \E imageId \in 1..MaxCatalogImages : handleDeleteImage(1, imageId)

\* a staff tab saves the fleet dialog, with uploads that succeed or throw,
\* while the admin account deletes vans and adds images
NextSave ==
  \/ fetchVansDone(2)
  \/ \E v \in VanIds, price \in FormPrices, files \in 0..MaxNewFiles :
       handleSave(2, v, price, files)
  \/ \E v \in VanIds, price \in FormPrices, files \in 1..MaxNewFiles :
       \E thrown \in 0..(files - 1) : handleSaveThrown(2, v, price, files, thrown)
  \/ \E imageId \in ImageIds : handleDeleteImage(2, imageId)
  \/ \E v \in VanIds : ApiDeleteVan(1, v)
  \/ \E v \in VanIds : ApiInsertVanImage(1, v)

SpecSave == Init /\ [][NextSave]_vars

\* each staff tab's route is given some values by useAuth()
InitRoute ==
  /\ vans = [v \in 1..InitVans |-> SampleVans[v]]
  /\ bookings = <<>>
  /\ van_images = {}
  /\ inserts = [k \in Callers |-> None]
  /\ index = [c \in Customers |->
       [loading |-> TRUE, vans |-> <<>>, selectedVan |-> None,
        startDate |-> None, endDate |-> None, form |-> EmptyForm,
        bookingOpen |-> FALSE, successOpen |-> FALSE, bookingCode |-> <<>>,
        submitting |-> FALSE, toast |-> NoToast,
        lookupCode |-> <<>>, lookupLoading |-> FALSE,
        lookupResult |-> None, lookupError |-> ""]]
  /\ lookups = [c \in Customers |-> {}]
  /\ adminBookings = [s \in StaffUids |->
       [bookings |-> <<>>, loading |-> TRUE, filter |-> "all", toast |-> NoToast]]
  /\ fetches = [s \in StaffUids |-> {"all"}]
  /\ updates = [s \in StaffUids |-> None]
  /\ adminFleet = [s \in StaffUids |->
       [vans |-> <<>>, images |-> {}, loading |-> TRUE, fetching |-> TRUE,
        dialogOpen |-> FALSE, editingVan |-> None, form |-> None,
        newImageFiles |-> 0, toast |-> NoToast]]
  /\ api = [o \in ApiCallers |-> NoResponse]
  /\ route \in [StaffUids -> {Unrendered(auth) : auth \in AuthStates}]

NextRoute == \E t \in StaffUids : render(t)

SpecRoute == InitRoute /\ [][NextRoute]_vars

SpecCatalog == InitCatalog /\ [][NextCatalog]_vars

\* the codes the trigger can produce
Codes == {CandidateCode(seed) : seed \in Seeds}

\* contents of the bookings table the trigger may meet: rows of any status
\* that hold distinct codes, up to a table that holds every code
Tables ==
  UNION { { [i \in 1..n |->
              [id |-> i, customer_phone |-> <<"0","8","9","1","2","3","4","5","6","7">>,
               van_id |-> 1, start_date |-> <<2025, 6, 10>>, end_date |-> <<2025, 6, 13>>,
               total_price |-> 5400, status |-> t[i][2], booking_code |-> t[i][1]]] :
            t \in {u \in [1..n -> Codes \X booking_status] :
                     \A i, j \in 1..n : i # j => u[i][1] # u[j][1]} } :
          n \in 0..Cardinality(Codes) }

\* the trigger has just been fired by an INSERT of the anonymous caller
InitGenerate ==
  /\ vans = [v \in 1..InitVans |-> SampleVans[v]]
  /\ bookings \in Tables
  /\ van_images = {}
  /\ \E row \in ApiRows :
       inserts = [k \in Callers |->
                    IF k = Direct(NullUid) THEN Some([new_row |-> row, coded |-> FALSE])
                    ELSE None]
  /\ index = [c \in Customers |->
       [loading |-> TRUE, vans |-> <<>>, selectedVan |-> None,
        startDate |-> None, endDate |-> None, form |-> EmptyForm,
        bookingOpen |-> FALSE, successOpen |-> FALSE, bookingCode |-> <<>>,
        submitting |-> FALSE, toast |-> NoToast,
        lookupCode |-> <<>>, lookupLoading |-> FALSE,
        lookupResult |-> None, lookupError |-> ""]]
  /\ lookups = [c \in Customers |-> {}]
  /\ adminBookings = [s \in StaffUids |->
       [bookings |-> <<>>, loading |-> TRUE, filter |-> "all", toast |-> NoToast]]
  /\ fetches = [s \in StaffUids |-> {"all"}]
  /\ updates = [s \in StaffUids |-> None]
  /\ adminFleet = [s \in StaffUids |->
       [vans |-> <<>>, images |-> {}, loading |-> TRUE, fetching |-> TRUE,
        dialogOpen |-> FALSE, editingVan |-> None, form |-> None,
        newImageFiles |-> 0, toast |-> NoToast]]
  /\ api = [o \in ApiCallers |-> NoResponse]
  /\ route = [t \in StaffUids |-> Mounting]

\* the trigger of insert k is in its LOOP / has returned
Uncoded(k) == inserts[k] # None /\ ~inserts[k][1].coded
Coded(k) == inserts[k] # None /\ inserts[k][1].coded

\* every code the trigger can produce is held by a row
AllCodesHeld ==
  \A seed \in Seeds : \E i \in BookingIds : bookings[i].booking_code = CandidateCode(seed)

\* the pass of the LOOP that leaves it: EXIT WHEN NOT code_exists
CodeFound(k) ==
  /\ generate_booking_code(k)
  /\ inserts'[k][1].coded

NextGenerate == DirectBookings(NullUid)

\* random() is fair: a candidate that would leave the LOOP is drawn in the end
SpecGenerate ==
  InitGenerate /\ [][NextGenerate]_vars /\ WF_vars(CodeFound(Direct(NullUid)))

(***************************************************************************)
(* C1.  No two rows of bookings hold the same booking_code, in every       *)
(* reachable state, also when two inserts chose the same candidate before  *)
(* either was stored.                                                      *)
(***************************************************************************)
C1_UniqueBookingCode ==
  \A i, j \in BookingIds : i # j => bookings[i].booking_code # bookings[j].booking_code

\* a row is stored while another insert, already past the trigger, carries
\* the same code
C1_Witness ==
  \E i \in BookingIds, k \in Callers :
    /\ inserts[k] # None /\ inserts[k][1].coded
    /\ inserts[k][1].new_row.booking_code = bookings[i].booking_code

(***************************************************************************)
(* C2.  A uniqueness conflict at insert time is retried inside the store:  *)
(* no handleSubmit is answered with a duplicate-key error.                 *)
(***************************************************************************)
C2_CollisionHiddenFromCaller ==
  \A c \in Customers :
    ~(index[c].toast.title = "Booking Failed" /\ index[c].toast.description = "23505")

(***************************************************************************)
(* C9.  Every row of bookings has end_date strictly after start_date.      *)
(***************************************************************************)
C9_EndAfterStart ==
  \A i \in BookingIds : DayNumber(bookings[i].end_date) > DayNumber(bookings[i].start_date)

(***************************************************************************)
(* C10.  The total_price of a row that enters bookings is the daily price  *)
(* its van has in the store at that moment times the whole days from       *)
(* start_date to end_date.                                                 *)
(***************************************************************************)
C10_TotalPriceAtInsert ==
  [][Len(bookings') = Len(bookings) + 1 =>
       LET b == bookings'[Len(bookings')]
       IN  b.total_price =
             vans[b.van_id].price_per_day * differenceInDays(b.end_date, b.start_date)]_vars

(***************************************************************************)
(* C3.  Every change of a stored status follows an edge of the state       *)
(* machine: pending to confirmed or cancelled, confirmed to completed      *)
(* (through proceed or not).                                               *)
(***************************************************************************)
Edge(from, to) ==
  \/ from = "pending" /\ to \in {"confirmed", "cancelled"}
  \/ from = "confirmed" /\ to \in {"proceed", "completed"}
  \/ from = "proceed" /\ to = "completed"

C3_StatusFollowsEdges ==
  [][\A i \in BookingIds :
       bookings'[i].status # bookings[i].status =>
         Edge(bookings[i].status, bookings'[i].status)]_vars

(***************************************************************************)
(* C4.  completed and cancelled are terminal: no step changes a stored     *)
(* status that is completed or cancelled.                                  *)
(***************************************************************************)
C4_TerminalStatusKept ==
  [][\A i \in BookingIds :
       bookings[i].status \in {"completed", "cancelled"} =>
         bookings'[i].status = bookings[i].status]_vars

(***************************************************************************)
(* C5.  Two updateStatus calls under way at the same time for the same     *)
(* booking with different target statuses are never both answered without  *)
(* an error.                                                               *)
(***************************************************************************)
C5_ConflictNotSilent ==
  \A s1, s2 \in StaffUids :
    ~( /\ s1 # s2
       /\ updates[s1] # None /\ updates[s2] # None
       /\ updates[s1][1].replied /\ updates[s2][1].replied
       /\ updates[s1][1].id = updates[s2][1].id
       /\ updates[s1][1].status # updates[s2][1].status
       /\ updates[s1][1].error = "" /\ updates[s2][1].error = "" )

(***************************************************************************)
(* C6.  A lookup whose normalized code is held by a stored booking shows   *)
(* that booking with its van's name, model and primary image; a lookup     *)
(* whose normalized code is held by no booking shows not-found.            *)
(***************************************************************************)
C6_LookupRoundTrip ==
  [][\A c \in Customers : \A code \in lookups[c] :
       lookups'[c] = lookups[c] \ {code} =>
         IF \E i \in BookingIds : bookings[i].booking_code = code
         THEN \E i \in BookingIds :
                /\ bookings[i].booking_code = code
                /\ index'[c].lookupResult =
                     Some([booking |-> bookings[i],
                           vans |-> Some([name |-> vans[bookings[i].van_id].name,
                                          model |-> vans[bookings[i].van_id].model,
                                          image_url |-> vans[bookings[i].van_id].image_url])])
         ELSE index'[c].lookupError # ""]_vars

(***************************************************************************)
(* C7.  A caller that is not staff reads a booking only by presenting its  *)
(* code: every row a SELECT returns to such a caller has the booking_code  *)
(* the request filtered on.                                                *)
(***************************************************************************)
C7_ReadOnlyByCode ==
  \A o \in Outsiders :
    api[o].op = "select bookings" =>
      \A row \in api[o].rows : api[o].filter = Some(row.booking_code)

(***************************************************************************)
(* C8.  No write attempted by a caller without role admin or staff changes *)
(* a row of bookings, vans or van_images.                                  *)
(***************************************************************************)
C8_NonStaffWritesChangeNothing ==
  [][\A o \in Outsiders :
       DirectWrites(o) =>
         /\ bookings' = bookings
         /\ vans' = vans
         /\ van_images' = van_images]_vars

\* both kinds of caller have tried: the signed-in one an UPDATE of an existing
\* booking, the anonymous one an INSERT into vans; rows exist in all three tables
C8_Witness ==
  /\ api[OutsiderUid].op = "update bookings" /\ api[OutsiderUid].count = 0
  /\ api[NullUid].op = "insert vans" /\ api[NullUid].error = "42501"
  /\ bookings # <<>> /\ van_images # {}

(***************************************************************************)
(* C11.  A stored booking keeps its booking_code, total_price, dates,      *)
(* customer_phone and van_id for ever: a step changes at most the status   *)
(* of an existing row, whether it is an updateStatus or a change of the    *)
(* van's daily price.                                                      *)
(***************************************************************************)
C11_OnlyStatusChanges ==
  [][/\ Len(bookings') >= Len(bookings)
     /\ \A i \in BookingIds :
          [bookings'[i] EXCEPT !.status = bookings[i].status] = bookings[i]]_vars

\* a booking was confirmed and its van now costs another daily price than the
\* one its total_price was computed from
C11_Witness ==
  \E i \in BookingIds :
    /\ bookings[i].status = "confirmed"
    /\ bookings[i].total_price = 1800 * differenceInDays(bookings[i].end_date, bookings[i].start_date)
    /\ vans[bookings[i].van_id].price_per_day = 2000

(***************************************************************************)
(* C12.  Every row that enters bookings has status pending when it is      *)
(* stored.                                                                 *)
(***************************************************************************)
C12_CreatedPending ==
  [][Len(bookings') = Len(bookings) + 1 =>
       bookings'[Len(bookings')].status = "pending"]_vars

(***************************************************************************)
(* C13.  Every row of bookings has a customer_phone that matches           *)
(* phoneRegex: nothing is stored for a phone that does not match.          *)
(***************************************************************************)
C13_StoredPhoneMatches ==
  \A i \in BookingIds : phoneRegexTest(bookings[i].customer_phone)

(***************************************************************************)
(* C14.  Every row of bookings references a row of vans, after every step; *)
(* an INSERT whose van_id is no van's id returns an error and stores       *)
(* nothing; a DELETE of a van that a booking references returns an error   *)
(* and leaves vans and bookings as they were.                              *)
(***************************************************************************)
C14_ReferentialIntegrity ==
  [][/\ \A i \in 1..Len(bookings') : bookings'[i].van_id \in DOMAIN vans'
     /\ \A v \in VanIds :
          (ApiDeleteVan(1, v) /\ \E i \in BookingIds : bookings[i].van_id = v) =>
            /\ api'[1].error # ""
            /\ vans' = vans /\ bookings' = bookings
     /\ (/\ ApiInsertBookingDone(NullUid)
         /\ inserts[Direct(NullUid)][1].new_row.van_id \notin DOMAIN vans) =>
            /\ api'[NullUid].error # ""
            /\ bookings' = bookings]_vars

\* the admin's DELETE of a referenced van and an INSERT for a van that does
\* not exist were both refused, while an unreferenced van was deleted before
C14_Witness ==
  /\ api[1].op = "delete vans" /\ api[1].error = "23503"
  /\ api[NullUid].op = "insert bookings" /\ api[NullUid].error = "23503"
  /\ bookings # <<>>
  /\ DOMAIN vans # VanIds

(***************************************************************************)
(* C15.  An updateStatus call whose id no row of bookings has ends with    *)
(* the error toast, never with "Status Updated".                           *)
(***************************************************************************)
C15_UnknownIdFails ==
  [][\A s \in StaffUids :
       (/\ updates[s] # None /\ updates'[s] = None
        /\ ~\E i \in BookingIds : bookings[i].id = updates[s][1].id) =>
          adminBookings'[s].toast.title = "Error"]_vars

(***************************************************************************)
(* C16.  proceed is not a dead end: whenever a staff tab lists a booking   *)
(* in status proceed, it offers the operation that moves it to completed.  *)
(***************************************************************************)
C16_ProceedCanComplete ==
  \A s \in StaffUids : \A n \in DOMAIN adminBookings[s].bookings :
    adminBookings[s].bookings[n].status = "proceed" =>
      "completed" \in Buttons(adminBookings[s].bookings[n])

(***************************************************************************)
(* C17.  A stored status confirmed is seen by every read that completes:   *)
(* a list under filter confirmed holds the booking, a list under filter    *)
(* pending does not, and a lookup by its code shows status confirmed.      *)
(***************************************************************************)
C17_CommittedStatusVisible ==
  [][/\ \A s \in StaffUids : \A filter \in fetches[s] \cap {"confirmed", "pending"} :
          fetches'[s] = fetches[s] \ {filter} =>
            \A i \in BookingIds :
              bookings[i].status = "confirmed" =>
                ((\E n \in DOMAIN adminBookings'[s].bookings :
                     /\ adminBookings'[s].bookings[n].id = bookings[i].id
                     /\ adminBookings'[s].bookings[n].status = "confirmed")
                 <=> filter = "confirmed")
     /\ \A c \in Customers : \A code \in lookups[c] :
          lookups'[c] = lookups[c] \ {code} =>
            \A i \in BookingIds :
              (bookings[i].booking_code = code /\ bookings[i].status = "confirmed") =>
                /\ index'[c].lookupResult # None
                /\ index'[c].lookupResult[1].booking.id = bookings[i].id
                /\ index'[c].lookupResult[1].booking.status = "confirmed"]_vars

\* updateStatus has confirmed a booking; the staff tab lists it under filter
\* confirmed and the customer's lookup shows it confirmed
C17_Witness ==
  \E i \in BookingIds :
    /\ bookings[i].status = "confirmed"
    /\ adminBookings[1].toast = Toast("Status Updated", "confirmed")
    /\ adminBookings[1].filter = "confirmed" /\ fetches[1] = {}
    /\ \E n \in DOMAIN adminBookings[1].bookings :
         adminBookings[1].bookings[n] = bookings[i]
    /\ index[1].lookupResult # None
    /\ index[1].lookupResult[1].booking = bookings[i]

(***************************************************************************)
(* C18.  The list a fetchBookings receives holds exactly the rows of       *)
(* bookings whose status is the filter, every row under filter all, each   *)
(* once and the most recently created first.                               *)
(***************************************************************************)
C18_ListExactAndOrdered ==
  [][\A s \in StaffUids : \A filter \in fetches[s] :
       fetches'[s] = fetches[s] \ {filter} =>
         LET list == adminBookings'[s].bookings
         IN  /\ \A i \in BookingIds :
                  (filter = "all" \/ bookings[i].status = filter)
                    <=> \E n \in DOMAIN list : list[n] = bookings[i]
             /\ \A n \in DOMAIN list : \E i \in BookingIds : list[n] = bookings[i]
             /\ \A n, m \in DOMAIN list : n < m => list[n].id > list[m].id]_vars

\* two bookings of different status are stored and the staff tab has
\* received both under filter all, the later one first
C18_Witness ==
  /\ Len(bookings) = 2 /\ bookings[1].status # bookings[2].status
  /\ adminBookings[1].filter = "all" /\ fetches[1] = {}
  /\ adminBookings[1].bookings = <<bookings[2], bookings[1]>>

(***************************************************************************)
(* C19.  An updateStatus call for the status its booking already has       *)
(* leaves the status as it is and ends with the toast "Status Updated",    *)
(* not with an error.                                                      *)
(***************************************************************************)
C19_SameStatusNoError ==
  [][\A s \in StaffUids :
       /\ (/\ updates[s] # None /\ ~updates[s][1].replied
           /\ updates'[s] # None /\ updates'[s][1].replied) =>
             \A i \in BookingIds :
               (/\ bookings[i].id = updates[s][1].id
                /\ bookings[i].status = updates[s][1].status) =>
                  /\ bookings'[i].status = bookings[i].status
                  /\ updates'[s][1].error = ""
       /\ (/\ updates[s] # None /\ updates'[s] = None
           /\ \E i \in BookingIds : /\ bookings[i].id = updates[s][1].id
                                     /\ bookings[i].status = updates[s][1].status) =>
             adminBookings'[s].toast.title # "Error"]_vars

\* both staff tabs have called updateStatus(id, confirmed) for one booking and
\* both calls were applied: the second one found the booking confirmed
C19_Witness ==
  /\ updates[1] # None /\ updates[2] # None
  /\ updates[1][1].replied /\ updates[2][1].replied
  /\ updates[1][1].id = updates[2][1].id
  /\ updates[1][1].status = "confirmed" /\ updates[2][1].status = "confirmed"
  /\ updates[1][1].error = "" /\ updates[2][1].error = ""
  /\ \E i \in BookingIds : bookings[i].id = updates[1][1].id /\ bookings[i].status = "confirmed"

(***************************************************************************)
(* C20.  The trigger leaves its LOOP only with a code that no row of       *)
(* bookings held when it was checked; while some code is held by no row    *)
(* the LOOP is left in the end, and while every code is held it is never   *)
(* left.                                                                   *)
(***************************************************************************)
C20_GeneratorTerminatesOnFreeCode ==
  /\ [][\A k \in Callers :
          (Uncoded(k) /\ inserts'[k] # None /\ inserts'[k][1].coded) =>
            /\ \A i \in BookingIds :
                 bookings[i].booking_code # inserts'[k][1].new_row.booking_code
            /\ ~AllCodesHeld]_vars
  /\ \A k \in Callers : Uncoded(k) ~> (Coded(k) \/ AllCodesHeld)

\* the table holds a code and the trigger has returned another one
C20_Witness ==
  \E k \in Callers :
    /\ inserts[k] # None /\ inserts[k][1].coded
    /\ bookings # <<>>
    /\ \A i \in BookingIds : bookings[i].booking_code # inserts[k][1].new_row.booking_code

(***************************************************************************)
(* C21.  The booking_code of every row of bookings has exactly 6           *)
(* characters, each an uppercase letter A-Z or a digit 0-9.                *)
(***************************************************************************)
UpperAlphanumeric ==
  {"A","B","C","D","E","F","G","H","I","J","K","L","M","N","O","P","Q","R",
   "S","T","U","V","W","X","Y","Z","0","1","2","3","4","5","6","7","8","9"}

C21_CodeSixUpperAlphanumeric ==
  \A i \in BookingIds :
    /\ Len(bookings[i].booking_code) = 6
    /\ \A n \in 1..Len(bookings[i].booking_code) :
         bookings[i].booking_code[n] \in UpperAlphanumeric

\* two rows are stored, one of them with a code whose md5 digits held letters
C21_Witness ==
  /\ Len(bookings) = 2
  /\ \E i \in BookingIds : bookings[i].booking_code = <<"A","1","B","2","C","3">>

(***************************************************************************)
(* C22.  A row of bookings stays for ever: after every step each stored    *)
(* row is still stored, with its id, so the table only grows.              *)
(***************************************************************************)
C22_BookingsNeverDeleted ==
  [][/\ Len(bookings') >= Len(bookings)
     /\ \A i \in BookingIds : bookings'[i].id = bookings[i].id]_vars

\* a booking is stored; the admin's DELETE of its van was refused, and a
\* staff account and the anonymous key have each sent a DELETE of a booking
C22_Witness ==
  /\ bookings # <<>>
  /\ api[1].op = "delete vans" /\ api[1].error = "23503"
  /\ api[2].op = "delete bookings" /\ api[2].count = 0
  /\ api[NullUid].op = "delete bookings"

(***************************************************************************)
(* C23.  The catalog load() receives holds exactly the vans whose status   *)
(* is available when vans is read, and under each of them exactly its rows *)
(* of van_images as they are when van_images is read, in ascending         *)
(* sort_order; no van of another status is in it.                          *)
(***************************************************************************)
C23_CatalogAvailableWithImages ==
  [][\A c \in Customers :
       /\ (index[c].loading /\ DOMAIN index[c].vans = {} /\ index'[c] # index[c]) =>
            /\ DOMAIN index'[c].vans = {v \in DOMAIN vans : vans[v].status = "available"}
            /\ \A v \in DOMAIN index'[c].vans :
                 index'[c].vans[v] = WithImages(vans[v], index'[c].vans[v].images)
       /\ (index[c].loading /\ ~index'[c].loading) =>
            \A v \in DOMAIN index'[c].vans :
              LET images == index'[c].vans[v].images
              IN  /\ index'[c].vans[v].status = "available"
                  /\ {images[n] : n \in DOMAIN images} = {img \in van_images : img.van_id = v}
                  /\ Len(images) = Cardinality({img \in van_images : img.van_id = v})
                  /\ \A n, m \in DOMAIN images :
                       n < m => images[n].sort_order <= images[m].sort_order]_vars

\* the catalog is loaded with one van that has two images of different
\* sort_order, while another van is stored that is not available
C23_Witness ==
  /\ ~index[1].loading
  /\ \E v \in DOMAIN index[1].vans :
       /\ Len(index[1].vans[v].images) = 2
       /\ index[1].vans[v].images[1].sort_order < index[1].vans[v].images[2].sort_order
  /\ \E v \in DOMAIN vans : vans[v].status # "available" /\ v \notin DOMAIN index[1].vans

(***************************************************************************)
(* C24.  The staff booking view converges to the store: whenever no fetch  *)
(* of a staff tab is in flight (every change is committed, its             *)
(* notification has started a fetch and that fetch has completed), the     *)
(* list the tab shows is the store's bookings under the filter the tab has *)
(* selected.                                                               *)
(***************************************************************************)
C24_ViewConvergesToStore ==
  \A s \in StaffUids :
    fetches[s] = {} =>
      adminBookings[s].bookings = SelectBookings(s, adminBookings[s].filter)

(***************************************************************************)
(* C25.  The lookup dialog never shows a result and an error together: in  *)
(* every reachable state of a customer tab lookupResult is null or         *)
(* lookupError is empty.                                                   *)
(***************************************************************************)
C25_ResultOrErrorNotBoth ==
  \A c \in Customers : index[c].lookupResult = None \/ index[c].lookupError = ""

(***************************************************************************)
(* C26.  Every booking that is inserted is stored with a non-null code     *)
(* the generator chose; a booking_code the caller supplied with the row is *)
(* discarded.                                                              *)
(***************************************************************************)
C26_StoredCodeIsGenerated ==
  [][\A i \in 1..Len(bookings') :
       i > Len(bookings) =>
         /\ bookings'[i].booking_code # <<>>
         /\ bookings'[i].booking_code \in {CandidateCode(seed) : seed \in Seeds}
         /\ \A row \in ApiRows :
              row.booking_code # <<>> => bookings'[i].booking_code # row.booking_code]_vars

\* a direct caller's row that came with a booking_code of its own (the
\* confirmed one) is stored, under another code
C26_Witness ==
  /\ api[NullUid].op = "insert bookings" /\ api[NullUid].count = 1
  /\ \E i \in BookingIds, row \in ApiRows :
       /\ row.booking_code # <<>>
       /\ bookings[i].status = row.status /\ bookings[i].van_id = row.van_id
       /\ bookings[i] \in api[NullUid].rows
       /\ bookings[i].booking_code # row.booking_code

(***************************************************************************)
(* C27.  When the insert of handleSubmit returns, either it succeeded: the *)
(* row is stored, the code shown is the stored row's booking_code, the     *)
(* booking dialog is closed, the success dialog is open and the form       *)
(* fields and both dates are reset; or it failed: no booking is stored,    *)
(* the failure is reported, the success dialog is not opened, the code     *)
(* shown is unchanged and the form fields and dates are kept.              *)
(***************************************************************************)
C27_SubmitOutcome ==
  [][\A c \in Customers :
       (inserts[Tab(c)] # None /\ inserts'[Tab(c)] = None) =>
         IF InsertError(NullUid, inserts[Tab(c)][1].new_row) = ""
         THEN /\ Len(bookings') = Len(bookings) + 1
              /\ SubSeq(bookings', 1, Len(bookings)) = bookings
              /\ index'[c].bookingCode = bookings'[Len(bookings')].booking_code
              /\ ~index'[c].bookingOpen
              /\ index'[c].successOpen
              /\ index'[c].form = EmptyForm
              /\ index'[c].startDate = None /\ index'[c].endDate = None
         ELSE /\ bookings' = bookings
              /\ index'[c].toast.title = "Booking Failed"
              /\ index'[c].successOpen = index[c].successOpen
              /\ index'[c].bookingOpen = index[c].bookingOpen
              /\ index'[c].bookingCode = index[c].bookingCode
              /\ index'[c].form = index[c].form
              /\ index'[c].startDate = index[c].startDate
              /\ index'[c].endDate = index[c].endDate]_vars

\* one tab's submission succeeded and shows its code, the other tab's failed
\* and still shows the booking dialog with the form as typed
C27_Witness ==
  \E c, d \in Customers :
    /\ index[c].successOpen /\ ~index[c].bookingOpen
    /\ \E i \in BookingIds : bookings[i].booking_code = index[c].bookingCode
    /\ index[d].toast.title = "Booking Failed"
    /\ index[d].bookingOpen /\ ~index[d].successOpen
    /\ index[d].form # EmptyForm /\ index[d].startDate # None

(***************************************************************************)
(* C28.  submitting is true exactly while the insert of handleSubmit is in *)
(* flight: a submission that validation rejects never sets it, and once    *)
(* the insert has returned it is false.                                    *)
(***************************************************************************)
C28_SubmittingWhileInserting ==
  \A c \in Customers : index[c].submitting <=> inserts[Tab(c)] # None

\* one tab was rejected for its phone, then submitted again and got its
\* booking, and is not submitting; the other tab's insert is in flight
C28_Witness ==
  \E c, d \in Customers :
    /\ index[c].toast.title = "Invalid Phone"
    /\ index[c].successOpen /\ ~index[c].submitting /\ inserts[Tab(c)] = None
    /\ index[d].submitting /\ inserts[Tab(d)] # None

(***************************************************************************)
(* C29.  handleSave is all-or-nothing with respect to the outcome it       *)
(* reports: when it reports an error no row of vans or van_images has been *)
(* inserted or changed; when it reports success and closes the dialog the  *)
(* van row is stored as the form has it and every picked additional image  *)
(* is stored under that van, with sort orders that are distinct and        *)
(* greater than those of the van's existing images.                        *)
(***************************************************************************)
C29_SaveAllOrNothing ==
  [][\A s \in StaffUids :
       adminFleet'[s].toast # adminFleet[s].toast =>
         IF adminFleet'[s].toast.title = "Error"
         THEN vans' = vans /\ van_images' = van_images
         ELSE (adminFleet'[s].toast.title = "Van Updated" /\ ~adminFleet'[s].dialogOpen) =>
                LET v == adminFleet'[s].editingVan[1]
                    added == van_images' \ van_images
                IN  /\ v \in DOMAIN vans'
                    /\ vans'[v] = adminFleet'[s].form[1]
                    /\ Cardinality(added) = adminFleet'[s].newImageFiles
                    /\ \A img \in added :
                         /\ img.van_id = v
                         /\ \A old \in van_images :
                              old.van_id = v => img.sort_order > old.sort_order
                         /\ \A other \in added :
                              other # img => other.sort_order # img.sort_order]_vars

(***************************************************************************)
(* C30.  ProtectedRoute renders the pages only when loading is false, a    *)
(* user is present and a profile is present whose role is admin or staff;  *)
(* while loading it renders neither the pages nor a redirect; in every     *)
(* other case it redirects to the admin login.                             *)
(***************************************************************************)
C30_PagesOnlyForStaff ==
  \A t \in StaffUids :
    route[t].rendered # "" =>
      LET staff == /\ route[t].user # None
                   /\ route[t].profile # None
                   /\ route[t].profile[1].role \in {"admin", "staff"}
      IN  /\ route[t].rendered = "children" <=> (~route[t].loading /\ staff)
          /\ route[t].loading => route[t].rendered = "spinner"
          /\ (~route[t].loading /\ ~staff) => route[t].rendered = "redirect"

\* one tab shows the pages to a staff profile, another has redirected a
\* signed-in user that has no profile
C30_Witness ==
  \E t, u \in StaffUids :
    /\ route[t].rendered = "children" /\ route[t].profile # None
    /\ route[u].rendered = "redirect" /\ ~route[u].loading
    /\ route[u].user # None /\ route[u].profile = None

====
